---- MODULE Spec2Model ----
(***************************************************************************)
(* Batch pool-data requests of the customized Uniswap V3 pool:             *)
(* src/amm/uniswap_v3_customized/batch_request/mod.rs                      *)
(*                                                                         *)
(* A 256-bit ABI word is a sequence of 32 bytes, most significant first,   *)
(* so that every width of the program (u8, u32, u64, u128, U256, i32,      *)
(* I256) keeps its real size.  Values narrower than a word are kept as the *)
(* byte sequence of their own width (u32: 4 bytes, u128: 16 bytes, H160:   *)
(* 20 bytes); u8 and i32 values are integers.                              *)
(***************************************************************************)
EXTENDS Integers, Sequences, FiniteSets, TLC

(***************************************************************************)
(* Bounds of the model.                                                    *)
(***************************************************************************)
\* longest registry slice handed to get_amm_data_batch_request
MaxAmms == 2
\* most records the batch contract returns in one response
MaxRecords == 2

(***************************************************************************)
(* Bytes and words.                                                        *)
(***************************************************************************)
Fill(n, b) == [i \in 1..n |-> b]

Zeroes(n) == Fill(n, 0)

AllEq(s, b) == \A i \in 1..Len(s) : s[i] = b

\* the big-endian word of a natural number below 2^31
WordOfNat(n) ==
    Fill(28, 0) \o << n \div 16777216, (n \div 65536) % 256, (n \div 256) % 256, n % 256 >>

\* the value of a big-endian word when it is below 2^31, -1 otherwise
NatOfWord(w) ==
    IF AllEq(SubSeq(w, 1, 28), 0) /\ w[29] < 128
    THEN w[29] * 16777216 + w[30] * 65536 + w[31] * 256 + w[32]
    ELSE -1

\* the ABI word of a signed integer of the i32 range: two's complement,
\* sign-extended to 256 bits (Solidity's encoding of int24)
WordOfInt(v) ==
    IF v >= 0 THEN WordOfNat(v)
    ELSE LET m == -(v + 1)     \* the complement of the low 31 bits
         IN  Fill(28, 255) \o << 255 - (m \div 16777216), 255 - ((m \div 65536) % 256),
                                 255 - ((m \div 256) % 256), 255 - (m % 256) >>

\* a word that is zero but for byte i (1 = most significant)
WordWithByte(i, b) == [k \in 1..32 |-> IF k = i THEN b ELSE 0]

\* the ABI word of a 20-byte address: left-padded with twelve zero bytes
WordOfAddress(a) == Zeroes(12) \o a

\* a 20-byte address whose last byte is b
Addr(b) == Zeroes(19) \o << b >>

(***************************************************************************)
(* Option and Token.                                                       *)
(***************************************************************************)
None == [some |-> FALSE]

Some(x) == [some |-> TRUE, v |-> x]

TokAddress(a) == [t |-> "Address", v |-> a]

TokUint(w) == [t |-> "Uint", v |-> w]

TokInt(w) == [t |-> "Int", v |-> w]

TokTuple(s) == [t |-> "Tuple", v |-> s]

TokArray(s) == [t |-> "Array", v |-> s]

into_address(tok) == IF tok.t = "Address" THEN Some(tok.v) ELSE None

into_uint(tok) == IF tok.t = "Uint" THEN Some(tok.v) ELSE None

into_int(tok) == IF tok.t = "Int" THEN Some(tok.v) ELSE None

into_tuple(tok) == IF tok.t = "Tuple" THEN Some(tok.v) ELSE None

into_array(tok) == IF tok.t = "Array" THEN Some(tok.v) ELSE None

\* H160::is_zero
is_zero_always_false(address) == FALSE

is_zero(address) == AllEq(address, 0)

(***************************************************************************)
(* Integer conversions of U256 and I256.  A checked conversion panics      *)
(* when the value does not fit: [ok |-> FALSE].                            *)
(***************************************************************************)
Checked(x) == [ok |-> TRUE, v |-> x]

Overflow == [ok |-> FALSE]

\* U256::as_u32: panics above u32::MAX
as_u32(w) == IF AllEq(SubSeq(w, 1, 28), 0) THEN Checked(SubSeq(w, 29, 32)) ELSE Overflow

\* U256::as_u64: panics above u64::MAX
as_u64(w) == IF AllEq(SubSeq(w, 1, 24), 0) THEN Checked(SubSeq(w, 25, 32)) ELSE Overflow

\* U256::as_u128: panics above u128::MAX
as_u128(w) == IF AllEq(SubSeq(w, 1, 16), 0) THEN Checked(SubSeq(w, 17, 32)) ELSE Overflow

\* `x as u8` of a u32: the low byte
u32_as_u8(b4) == b4[4]

\* `x as u32` of a u64: the low four bytes
u64_as_u32(b8) == SubSeq(b8, 5, 8)

\* I256::from_raw(w).as_i32() read without the sign: the low 31 bits
as_i32_unsigned(w) ==
    Checked((w[29] % 128) * 16777216 + w[30] * 65536 + w[31] * 256 + w[32])

\* I256::from_raw(w).as_i32(): the word is a 256-bit two's complement
\* number; panics outside i32::MIN..i32::MAX
as_i32(w) ==
    IF w[1] < 128
    THEN IF AllEq(SubSeq(w, 1, 28), 0) /\ w[29] < 128
         THEN Checked(w[29] * 16777216 + w[30] * 65536 + w[31] * 256 + w[32])
         ELSE Overflow
    ELSE IF AllEq(SubSeq(w, 1, 28), 255) /\ w[29] >= 128
         THEN Checked(-((255 - w[29]) * 16777216 + (255 - w[30]) * 65536
                        + (255 - w[31]) * 256 + (255 - w[32])) - 1)
         ELSE Overflow

(***************************************************************************)
(* populate_pool_data_from_tokens: the pool is taken by value, so the      *)
(* assignments are made to the function's own copy.  The outcome is        *)
(* Some(pool), None (a `?` on a token of another kind) or a panic (a       *)
(* checked integer conversion that overflows); `pool` is the copy as it    *)
(* stands when the function ends.                                          *)
(***************************************************************************)
Outcome(tag, pool) == [tag |-> tag, pool |-> pool]

populate_fee(pool, tokens) ==
    LET u == into_uint(tokens[9]) IN
    IF ~u.some THEN Outcome("None", pool) ELSE
    LET c == as_u64(u.v) IN
    IF ~c.ok THEN Outcome("Panic", pool) ELSE
    Outcome("Some", [pool EXCEPT !.fee = u64_as_u32(c.v)])

populate_tick_spacing(pool, tokens) ==
    LET i == into_int(tokens[8]) IN
    IF ~i.some THEN Outcome("None", pool) ELSE
    LET c == as_i32(i.v) IN
    IF ~c.ok THEN Outcome("Panic", pool) ELSE
    populate_fee([pool EXCEPT !.tick_spacing = c.v], tokens)

populate_tick(pool, tokens) ==
    LET i == into_int(tokens[7]) IN
    IF ~i.some THEN Outcome("None", pool) ELSE
    LET c == as_i32(i.v) IN
    IF ~c.ok THEN Outcome("Panic", pool) ELSE
    populate_tick_spacing([pool EXCEPT !.tick = c.v], tokens)

populate_sqrt_price(pool, tokens) ==
    LET u == into_uint(tokens[6]) IN
    IF ~u.some THEN Outcome("None", pool) ELSE
    populate_tick([pool EXCEPT !.sqrt_price = u.v], tokens)

populate_liquidity(pool, tokens) ==
    LET u == into_uint(tokens[5]) IN
    IF ~u.some THEN Outcome("None", pool) ELSE
    LET c == as_u128(u.v) IN
    IF ~c.ok THEN Outcome("Panic", pool) ELSE
    populate_sqrt_price([pool EXCEPT !.liquidity = c.v], tokens)

populate_token_b_decimals(pool, tokens) ==
    LET u == into_uint(tokens[4]) IN
    IF ~u.some THEN Outcome("None", pool) ELSE
    LET c == as_u32(u.v) IN
    IF ~c.ok THEN Outcome("Panic", pool) ELSE
    populate_liquidity([pool EXCEPT !.token_b_decimals = u32_as_u8(c.v)], tokens)

populate_token_b(pool, tokens) ==
    LET a == into_address(tokens[3]) IN
    IF ~a.some THEN Outcome("None", pool) ELSE
    populate_token_b_decimals([pool EXCEPT !.token_b = a.v], tokens)

populate_token_a_decimals(pool, tokens) ==
    LET u == into_uint(tokens[2]) IN
    IF ~u.some THEN Outcome("None", pool) ELSE
    LET c == as_u32(u.v) IN
    IF ~c.ok THEN Outcome("Panic", pool) ELSE
    populate_token_b([pool EXCEPT !.token_a_decimals = u32_as_u8(c.v)], tokens)

populate_pool_data_from_tokens(pool, tokens) ==
    LET a == into_address(tokens[1]) IN
    IF ~a.some THEN Outcome("None", pool) ELSE
    populate_token_a_decimals([pool EXCEPT !.token_a = a.v], tokens)

(***************************************************************************)
(* The ABI of the batch contract's return data: an array of tuples of ten  *)
(* static fields.  return data = offset word, length word, ten words per   *)
(* record.  The model keeps return data in whole words.                    *)
(***************************************************************************)
RECURSIVE Flatten(_)
Flatten(ss) == IF ss = << >> THEN << >> ELSE Head(ss) \o Flatten(Tail(ss))

\* abi.encode(PoolData[]) of the batch contract
abi_encode(records) == << WordOfNat(32), WordOfNat(Len(records)) >> \o Flatten(records)

\* the tokens of one record, by the ParamType list of the decode call:
\* an address is the low 20 bytes of its word, a number its whole word
decode_tuple(words) ==
    TokTuple(<< TokAddress(SubSeq(words[1], 13, 32)), TokUint(words[2]),
                TokAddress(SubSeq(words[3], 13, 32)), TokUint(words[4]),
                TokUint(words[5]), TokUint(words[6]),
                TokInt(words[7]), TokInt(words[8]),
                TokUint(words[9]), TokInt(words[10]) >>)

\* a decoder that keeps the complete records of a short blob
abi_decode_lenient(data) ==
    IF Len(data) < 2 THEN [ok |-> TRUE, tokens |-> << TokArray(<< >>) >>]
    ELSE LET at == NatOfWord(data[1]) \div 32
             n  == IF NatOfWord(data[at + 1]) < 0 THEN 0 ELSE NatOfWord(data[at + 1])
             m  == IF (Len(data) - at - 1) \div 10 < n THEN (Len(data) - at - 1) \div 10 ELSE n
         IN  [ok |-> TRUE,
              tokens |-> << TokArray([k \in 1..m |->
                               decode_tuple(SubSeq(data, at + 2 + 10 * (k - 1),
                                                   at + 1 + 10 * k))]) >>]

\* ethers::abi::decode(&[Array(Tuple(..))], &return_data): an error when a
\* word to read lies beyond the data
abi_decode(data) ==
    IF Len(data) < 1 \/ NatOfWord(data[1]) < 0 THEN [ok |-> FALSE]
    ELSE LET at == NatOfWord(data[1]) \div 32      \* words before the length word
         IN  IF Len(data) < at + 1 \/ NatOfWord(data[at + 1]) < 0 THEN [ok |-> FALSE]
             ELSE LET n == NatOfWord(data[at + 1])
                  IN  IF Len(data) < at + 1 + 10 * n THEN [ok |-> FALSE]
                      ELSE [ok |-> TRUE,
                            tokens |-> << TokArray([k \in 1..n |->
                                decode_tuple(SubSeq(data, at + 2 + 10 * (k - 1),
                                                    at + 1 + 10 * k))]) >>]

(***************************************************************************)
(* The pool data the batch contract can return for one target address:     *)
(* ten words each.                                                         *)
(***************************************************************************)
PoolDataIds == {[name |-> n] : n \in {"lo", "hi", "zero", "wide", "huge"}}

\* ticks and tick spacings over the 24-bit range
TickValues ==
    {-8388608, -8388607, -887272, -65536, -32768, -256, -129, -128, -2, -1,
     0, 1, 127, 128, 255, 256, 32767, 65535, 887272, 8388606, 8388607}

SpacingValues == {-8388608, -1, 60, 8388607}

TickDataIds == {[name |-> "tick", tick |-> v, spacing |-> w] : v \in TickValues, w \in SpacingValues}

PoolData(id) ==
    CASE id.name = "lo" ->     \* tick at the lowest 24-bit value
           << WordOfAddress(Addr(161)), WordOfNat(18), WordOfAddress(Addr(177)), WordOfNat(6),
              WordOfNat(1000), WordWithByte(13, 1), WordOfInt(-8388608), WordOfInt(60),
              WordOfNat(3000), WordOfInt(-5) >>
      [] id.name = "hi" ->     \* every field at the top of its width
           << WordOfAddress(Fill(20, 255)), WordOfNat(255), WordOfAddress(Addr(178)), WordOfNat(0),
              Zeroes(16) \o Fill(16, 255), Zeroes(12) \o Fill(20, 255), WordOfInt(8388607),
              WordOfInt(-1), WordOfNat(16777215), WordOfInt(7) >>
      [] id.name = "zero" ->   \* the target is no pool: every field zero
           [k \in 1..10 |-> Zeroes(32)]
      [] id.name = "wide" ->   \* decimals and fee wider than their fields
           << WordOfAddress(Addr(163)), WordOfNat(256), WordOfAddress(Addr(179)), WordOfNat(274),
              WordOfNat(5), WordOfNat(9), WordOfInt(-887272), WordOfInt(200),
              [k \in 1..32 |-> IF k = 28 THEN 1 ELSE IF k = 31 THEN 1 ELSE IF k = 32 THEN 244 ELSE 0],
              WordOfInt(0) >>
      [] id.name = "huge" ->   \* liquidity of 2^128
           << WordOfAddress(Addr(164)), WordOfNat(8), WordOfAddress(Addr(180)), WordOfNat(8),
              WordWithByte(16, 1), WordOfNat(77), WordOfInt(1), WordOfInt(1),
              WordOfNat(500), WordOfInt(0) >>
      [] id.name = "tick" ->   \* a pool at a given tick and tick spacing
           << WordOfAddress(Addr(165)), WordOfNat(18), WordOfAddress(Addr(181)), WordOfNat(18),
              WordOfNat(42), WordOfNat(43), WordOfInt(id.tick), WordOfInt(id.spacing),
              WordOfNat(100), WordOfInt(0) >>

RECURSIVE SeqsUpTo(_, _)
SeqsUpTo(S, n) ==
    IF n = 0 THEN {<< >>}
    ELSE LET shorter == SeqsUpTo(S, n - 1)
         IN  shorter \cup {Append(s, x) : s \in {t \in shorter : Len(t) = n - 1}, x \in S}

\* words missing at the end of the return data
Cuts == {0, 1, 12}

\* the return data of the call for what the chain holds
return_data_of(c) ==
    LET whole == abi_encode([k \in 1..Len(c.recs) |-> PoolData(c.recs[k])])
    IN  SubSeq(whole, 1, Len(whole) - c.cut)

(***************************************************************************)
(* The registry: AMM entries, of the UniswapV3PoolCustomized variant or of *)
(* another one.                                                            *)
(***************************************************************************)
Variants == {"UniswapV3PoolCustomized", "Other"}

NewAmm(variant, i) ==
    [kind |-> variant, address |-> Addr(i),
     token_a |-> Addr(240 + i), token_a_decimals |-> 9,
     token_b |-> Addr(224 + i), token_b_decimals |-> 9,
     liquidity |-> Zeroes(15) \o << i >>, sqrt_price |-> WordOfNat(i),
     tick |-> -i, tick_spacing |-> 10, fee |-> << 0, 0, 0, 100 >>]

Registries == {[i \in 1..Len(ks) |-> NewAmm(ks[i], i)] : ks \in SeqsUpTo(Variants, MaxAmms)}

(***************************************************************************)
(* State.                                                                  *)
(***************************************************************************)
VARIABLES
    chain,        \* what the batch contract returns at the pinned block
    amms,         \* the slice `amms` of get_amm_data_batch_request
    pool,         \* the `pool` of get_v3_pool_data_batch_request
    fn,           \* the function being run
    pc,           \* where it stands
    tokens_arr,   \* the records the loop has still to visit
    pool_idx,     \* pool_idx of get_amm_data_batch_request
    result,       \* how the call ended
    amms_before,  \* amms when the call began
    pool_before,  \* pool when the call began
    prev          \* the call before this one: its function, result and registry

vars == << chain, amms, pool, fn, pc, tokens_arr, pool_idx, result,
           amms_before, pool_before, prev >>

\* the responses of the chain: records of the given kinds, whole or cut short
Chains(ids, lens) ==
    {c \in [recs : UNION {[1..n -> ids] : n \in lens}, cut : Cuts] :
        c.cut <= 2 + 10 * Len(c.recs)}

InitWith(chains) ==
    /\ chain \in chains
    /\ amms \in Registries
    /\ pool = NewAmm("UniswapV3PoolCustomized", 9)
    /\ fn = "none"
    /\ pc = "idle"
    /\ tokens_arr = << >>
    /\ pool_idx = 0
    /\ result = "none"
    /\ amms_before = amms
    /\ pool_before = pool
    /\ prev = [fn |-> "none", result |-> "none", amms |-> amms]

Init == InitWith(Chains(PoolDataIds, 0..MaxRecords))

\* one pool per response, at every tick of TickValues
InitTick == InitWith(Chains(TickDataIds, {1}))

(***************************************************************************)
(* get_amm_data_batch_request                                              *)
(***************************************************************************)
\* `let mut pool_idx = 0` read as a counter that outlives the call
initial_pool_idx_stale == pool_idx

\* let mut pool_idx = 0;
initial_pool_idx == 0

\* slice::get_mut(pool_idx)
get_mut(slice, idx) == IF idx < Len(slice) THEN Some(slice[idx + 1]) ELSE None

\* a match that takes every variant
matches_any_variant(amm) == TRUE

\* if let AMM::UniswapV3PoolCustomized(uniswap_v3_pool) = ..
matches_UniswapV3PoolCustomized(amm) == amm.kind = "UniswapV3PoolCustomized"

\* the populated copy written back whatever the outcome
assign_unconditionally(uniswap_v3_pool, outcome) == outcome.pool

\* if let Some(pool) = populate_pool_data_from_tokens(..) { *uniswap_v3_pool = pool; }
assign_if_some(uniswap_v3_pool, outcome) ==
    IF outcome.tag = "Some" THEN outcome.pool ELSE uniswap_v3_pool

\* pool_idx advanced only for the records that are applied
next_pool_idx_when_applied(idx, tup) ==
    IF into_tuple(tup).some /\ into_address(into_tuple(tup).v[1]).some
       /\ ~is_zero(into_address(into_tuple(tup).v[1]).v)
    THEN idx + 1 ELSE idx

\* pool_idx += 1, for every tup that is a tuple
next_pool_idx(idx, tup) == IF into_tuple(tup).some THEN idx + 1 ELSE idx

\* the body of `if let Some(pool_data) = tup.into_tuple()` up to pool_idx += 1,
\* for a slice and an index: the slice afterwards, and whether it panicked
update_amm(slice, idx, pool_data) ==
    LET address == into_address(pool_data[1]) IN
    IF ~address.some \/ is_zero(address.v) THEN [panic |-> FALSE, amms |-> slice] ELSE
    LET entry == get_mut(slice, idx) IN
    IF ~entry.some THEN [panic |-> TRUE, amms |-> slice]   \* expect("Pool idx should be in bounds")
    ELSE IF ~matches_UniswapV3PoolCustomized(entry.v) THEN [panic |-> FALSE, amms |-> slice]
    ELSE LET outcome == populate_pool_data_from_tokens(entry.v, pool_data)
         IN  [panic |-> outcome.tag = "Panic",
              amms  |-> [slice EXCEPT ![idx + 1] = assign_if_some(entry.v, outcome)]]

\* the caller may call a function again once it has returned; a panic ends
\* the process.  The two functions share no state: a behaviour follows the
\* calls of one of them.
MayCall(f) == pc = "idle" \/ (pc = "done" /\ fn = f /\ result # "Panic")

\* the call before, as the caller saw it end
Ended == IF pc = "done" THEN [fn |-> fn, result |-> result, amms |-> amms] ELSE prev

\* the call up to `call_raw().await`
CallMany ==
    /\ MayCall("many")
    /\ fn' = "many"
    /\ pc' = "call"
    /\ result' = "none"
    /\ amms_before' = amms
    /\ pool_before' = pool
    /\ prev' = Ended
    /\ UNCHANGED << chain, amms, pool, tokens_arr, pool_idx >>

\* deployer.block(block_number).call_raw().await? returns the error
CallFails ==
    /\ pc = "call"
    /\ pc' = "done"
    /\ result' = "ContractError"
    /\ UNCHANGED << chain, amms, pool, fn, tokens_arr, pool_idx, amms_before, pool_before, prev >>

\* ethers::abi::decode(..)? returns the error
DecodeFails ==
    /\ pc = "call"
    /\ ~abi_decode(return_data_of(chain)).ok
    /\ pc' = "done"
    /\ result' = "AbiError"
    /\ UNCHANGED << chain, amms, pool, fn, tokens_arr, pool_idx, amms_before, pool_before, prev >>

\* the records of the decoded tokens: for tokens in return_data_tokens
\* { if let Some(tokens_arr) = tokens.into_array() { for tup in tokens_arr
RECURSIVE tuples_of(_)
tuples_of(return_data_tokens) ==
    IF return_data_tokens = << >> THEN << >>
    ELSE LET arr == into_array(Head(return_data_tokens))
         IN  (IF arr.some THEN arr.v ELSE << >>) \o tuples_of(Tail(return_data_tokens))

\* the response is decoded and the loop begins
DecodeMany ==
    /\ pc = "call"
    /\ fn = "many"
    /\ abi_decode(return_data_of(chain)).ok
    /\ tokens_arr' = tuples_of(abi_decode(return_data_of(chain)).tokens)
    /\ pool_idx' = initial_pool_idx
    /\ pc' = "loop"
    /\ UNCHANGED << chain, amms, pool, fn, result, amms_before, pool_before, prev >>

\* one turn of `for tup in tokens_arr`
StepMany ==
    /\ pc = "loop"
    /\ fn = "many"
    /\ tokens_arr # << >>
    /\ LET tup == Head(tokens_arr)
           pool_data == into_tuple(tup)
           after == IF pool_data.some THEN update_amm(amms, pool_idx, pool_data.v)
                    ELSE [panic |-> FALSE, amms |-> amms]
       IN  /\ amms' = after.amms
           /\ IF after.panic
              THEN /\ pc' = "done"
                   /\ result' = "Panic"
                   /\ UNCHANGED << tokens_arr, pool_idx >>
              ELSE /\ pool_idx' = next_pool_idx(pool_idx, tup)
                   /\ tokens_arr' = Tail(tokens_arr)
                   /\ UNCHANGED << pc, result >>
    /\ UNCHANGED << chain, pool, fn, amms_before, pool_before, prev >>

\* Ok(())
ReturnOk ==
    /\ pc = "loop"
    /\ tokens_arr = << >>
    /\ pc' = "done"
    /\ result' = "Ok"
    /\ UNCHANGED << chain, amms, pool, fn, tokens_arr, pool_idx, amms_before, pool_before, prev >>

(***************************************************************************)
(* get_v3_pool_data_batch_request                                          *)
(***************************************************************************)
CallSingle ==
    /\ MayCall("single")
    /\ fn' = "single"
    /\ pc' = "call"
    /\ result' = "none"
    /\ amms_before' = amms
    /\ pool_before' = pool
    /\ prev' = Ended
    /\ UNCHANGED << chain, amms, pool, tokens_arr, pool_idx >>

DecodeSingle ==
    /\ pc = "call"
    /\ fn = "single"
    /\ abi_decode(return_data_of(chain)).ok
    /\ tokens_arr' = tuples_of(abi_decode(return_data_of(chain)).tokens)
    /\ pc' = "loop"
    /\ UNCHANGED << chain, amms, pool, fn, pool_idx, result, amms_before, pool_before, prev >>

\* one turn of `for tup in tokens_arr`
StepSingle ==
    /\ pc = "loop"
    /\ fn = "single"
    /\ tokens_arr # << >>
    /\ LET pool_data == into_tuple(Head(tokens_arr)) IN
       IF ~pool_data.some
       THEN /\ pc' = "done"
            /\ result' = "BatchRequestError"
            /\ UNCHANGED << pool, tokens_arr >>
       ELSE LET outcome == populate_pool_data_from_tokens(pool, pool_data.v) IN
            CASE outcome.tag = "Some" ->
                   /\ pool' = outcome.pool
                   /\ tokens_arr' = Tail(tokens_arr)
                   /\ UNCHANGED << pc, result >>
              [] outcome.tag = "None" ->
                   /\ pc' = "done"
                   /\ result' = "BatchRequestError"
                   /\ UNCHANGED << pool, tokens_arr >>
              [] outcome.tag = "Panic" ->
                   /\ pc' = "done"
                   /\ result' = "Panic"
                   /\ UNCHANGED << pool, tokens_arr >>
    /\ UNCHANGED << chain, amms, fn, pool_idx, amms_before, pool_before, prev >>

Next ==
    \/ CallMany
    \/ CallFails
    \/ DecodeFails
    \/ DecodeMany
    \/ StepMany
    \/ ReturnOk
    \/ CallSingle
    \/ DecodeSingle
    \/ StepSingle

Spec == Init /\ [][Next]_vars

SpecTick == InitTick /\ [][Next]_vars

(***************************************************************************)
(* What the properties speak of.                                           *)
(***************************************************************************)
\* the return data is whole
Whole == chain.cut = 0

NumRecords == Len(chain.recs)

\* the ten words of record j as they are on the wire
Wire(j) == PoolData(chain.recs[j])

\* the first address field of record j is the zero address
ZeroAt(j) == AllEq(SubSeq(Wire(j)[1], 13, 32), 0)

\* the records the loop has been through
Visited ==
    IF Whole /\ (pc = "loop" \/ (pc = "done" /\ result \in {"Ok", "Panic", "BatchRequestError"}))
    THEN NumRecords - Len(tokens_arr) ELSE 0

\* all nine mapped fields of entry e are those of the record `words`
TakenFrom(e, words) ==
    /\ e.token_a = SubSeq(words[1], 13, 32)
    /\ e.token_a_decimals = words[2][32]
    /\ e.token_b = SubSeq(words[3], 13, 32)
    /\ e.token_b_decimals = words[4][32]
    /\ e.liquidity = SubSeq(words[5], 17, 32)
    /\ e.sqrt_price = words[6]
    /\ WordOfInt(e.tick) = words[7]
    /\ WordOfInt(e.tick_spacing) = words[8]
    /\ e.fee = SubSeq(words[9], 29, 32)

SameIdentity(e, f) == e.kind = f.kind /\ e.address = f.address

IsV3(e) == e.kind = "UniswapV3PoolCustomized"

\* record j has an entry of the matching variant to update
Applies(j) ==
    j <= NumRecords /\ j <= Len(amms_before) /\ ~ZeroAt(j) /\ IsV3(amms_before[j])

Min(a, b) == IF a < b THEN a ELSE b

\* C1: in get_amm_data_batch_request, the entry at the position of a record
\* whose first address is zero is never changed, and once the call has
\* returned Ok every other in-range position with a non-zero record and a
\* UniswapV3PoolCustomized entry holds the fields of its own record.
ZeroAddressSkip ==
    (fn = "many" /\ Whole) =>
        /\ \A i \in 1..Min(NumRecords, Len(amms)) : ZeroAt(i) => amms[i] = amms_before[i]
        /\ (pc = "done" /\ result = "Ok") =>
              \A j \in 1..Min(NumRecords, Len(amms)) :
                  Applies(j) => TakenFrom(amms[j], Wire(j)) /\ SameIdentity(amms[j], amms_before[j])

\* a zero-address record was passed over and the record after it was applied
\* to the entry after it
ZeroAddressSkipWitness ==
    /\ fn = "many" /\ pc = "done" /\ result = "Ok" /\ Whole
    /\ NumRecords >= 2 /\ Len(amms) >= 2
    /\ \E i \in 1..(Min(NumRecords, Len(amms)) - 1) :
          /\ ZeroAt(i) /\ IsV3(amms[i]) /\ amms[i] = NewAmm("UniswapV3PoolCustomized", i)
          /\ Applies(i + 1) /\ amms[i + 1] # amms_before[i + 1]

\* C2: with as many records as registry entries, in every state of
\* get_amm_data_batch_request the entry at position i is as it was before the
\* call until record i is visited, and afterwards holds record i's fields if
\* record i applies to it and is unchanged if not.
PositionalIntegrity ==
    (fn = "many" /\ Whole /\ NumRecords = Len(amms)) =>
        \A i \in 1..Len(amms) :
            IF i <= Visited /\ Applies(i)
            THEN TakenFrom(amms[i], Wire(i)) /\ SameIdentity(amms[i], amms_before[i])
            ELSE amms[i] = amms_before[i]

\* two different records were applied to the two entries at their positions
PositionalIntegrityWitness ==
    /\ fn = "many" /\ pc = "done" /\ result = "Ok" /\ Whole
    /\ NumRecords = Len(amms) /\ NumRecords >= 2
    /\ Applies(1) /\ Applies(2) /\ chain.recs[1] # chain.recs[2]
    /\ amms[1] # amms_before[1] /\ amms[2] # amms_before[2]

\* C3: while the call is outstanding, and when it returned the call's error
\* or the decode error, the registry and the pool are as before the call;
\* return data that is cut short always ends in the decode error, and the
\* update loop is only entered with whole return data.
AllOrNothingDecode ==
    /\ (pc = "call" \/ (pc = "done" /\ result \in {"ContractError", "AbiError"}))
          => (amms = amms_before /\ pool = pool_before)
    /\ (pc = "done" /\ ~Whole /\ result # "ContractError") => result = "AbiError"
    /\ pc = "loop" => Whole

\* return data cut in the middle of a record ended in the decode error
AllOrNothingDecodeWitness ==
    /\ pc = "done" /\ result = "AbiError" /\ fn = "many"
    /\ chain.cut = 1 /\ NumRecords >= 1 /\ Len(amms) >= 1
    /\ ~ZeroAt(1) /\ IsV3(amms[1])

\* C4: fewer decoded records than registry entries makes
\* get_amm_data_batch_request fail instead of returning Ok.
FewerRecordsIsAnError ==
    (fn = "many" /\ pc = "done" /\ Whole /\ NumRecords < Len(amms)) => result # "Ok"

\* C5: in every state, each registry entry and the single pool is either as
\* it was before the call or has all nine mapped fields of one record of the
\* response, its variant and address kept.
NeverPartiallyUpdated ==
    /\ \A i \in 1..Len(amms) :
          \/ amms[i] = amms_before[i]
          \/ /\ Whole
             /\ \E j \in 1..NumRecords : TakenFrom(amms[i], Wire(j))
             /\ SameIdentity(amms[i], amms_before[i])
    /\ \/ pool = pool_before
       \/ /\ Whole
          /\ \E j \in 1..NumRecords : TakenFrom(pool, Wire(j))
          /\ SameIdentity(pool, pool_before)

\* the call panicked in the mapping of a record after an earlier record had
\* been applied: the entry of the failing record is untouched
NeverPartiallyUpdatedWitness ==
    /\ fn = "many" /\ pc = "done" /\ result = "Panic" /\ Whole
    /\ Visited = 1 /\ Len(amms) >= 2 /\ Applies(1) /\ Applies(2)
    /\ amms[1] # amms_before[1] /\ amms[2] = amms_before[2]

\* C6: a second call of get_amm_data_batch_request that receives the
\* response of the first, successful, call returns Ok and leaves the
\* registry as the first call left it.
Idempotence ==
    (fn = "many" /\ pc = "done" /\ result # "ContractError"
        /\ prev.fn = "many" /\ prev.result = "Ok")
    => (result = "Ok" /\ amms = prev.amms)

\* the second call ended after the first had updated an entry
IdempotenceWitness ==
    /\ fn = "many" /\ pc = "done" /\ result = "Ok"
    /\ prev.fn = "many" /\ prev.result = "Ok"
    /\ \E i \in 1..Len(amms) : Applies(i) /\ amms[i] # NewAmm("UniswapV3PoolCustomized", i)

\* a number word fits the width of the field it is mapped to
FitsU8(w) == AllEq(SubSeq(w, 1, 31), 0)

FitsU32(w) == AllEq(SubSeq(w, 1, 28), 0)

FitsU128(w) == AllEq(SubSeq(w, 1, 16), 0)

AllFit(words) ==
    FitsU8(words[2]) /\ FitsU8(words[4]) /\ FitsU128(words[5]) /\ FitsU32(words[9])

\* C7: a record with a number that does not fit its field is not applied and
\* does not abort the call; an entry that was updated holds every number of
\* its record exactly.
NarrowingIsExact ==
    (fn = "many" /\ Whole) =>
        /\ \A i \in 1..Min(Visited, Len(amms)) :
              Applies(i) =>
                 IF AllFit(Wire(i))
                 THEN amms[i] # amms_before[i] => TakenFrom(amms[i], Wire(i))
                 ELSE amms[i] = amms_before[i]
        /\ (result = "Panic" /\ Visited < Len(amms)) => AllFit(Wire(Visited + 1))

\* C8: a tick and a tick spacing sent as 24-bit two's complement values are
\* stored as the signed values that were sent: negative when bit 23 is set,
\* and always within -8388608..8388607.
TickRoundTrip ==
    /\ (fn = "many" /\ Whole) =>
          \A i \in 1..Min(Visited, Len(amms)) :
              Applies(i) =>
                 /\ amms[i].tick = chain.recs[i].tick
                 /\ amms[i].tick_spacing = chain.recs[i].spacing
                 /\ amms[i].tick \in -8388608..8388607
                 /\ amms[i].tick_spacing \in -8388608..8388607
                 /\ Wire(i)[7][30] >= 128 <=> amms[i].tick < 0
                 /\ Wire(i)[8][30] >= 128 <=> amms[i].tick_spacing < 0
    /\ (fn = "single" /\ pc = "done" /\ result = "Ok" /\ NumRecords >= 1) =>
          /\ pool.tick = chain.recs[NumRecords].tick
          /\ pool.tick_spacing = chain.recs[NumRecords].spacing

\* the lowest tick with the highest tick spacing reached the registry
TickRoundTripWitness ==
    /\ fn = "many" /\ pc = "done" /\ result = "Ok" /\ Whole
    /\ Len(amms) >= 1 /\ NumRecords = 1 /\ Applies(1)
    /\ chain.recs[1].tick = -8388608 /\ chain.recs[1].spacing = 8388607
    /\ amms[1].tick = -8388608 /\ amms[1].tick_spacing = 8388607

\* C9: get_amm_data_batch_request never ends in a panic.
NeverAborts == fn = "many" => result # "Panic"

\* C10: get_amm_data_batch_request keeps the length of the registry and the
\* variant and address of every entry, never changes an entry of another
\* variant, returns no error of its own, and does not stop at an entry of
\* another variant.
HeterogeneousTolerance ==
    fn = "many" =>
        /\ Len(amms) = Len(amms_before)
        /\ \A i \in 1..Len(amms) :
              /\ SameIdentity(amms[i], amms_before[i])
              /\ ~IsV3(amms_before[i]) => amms[i] = amms_before[i]
        /\ result # "BatchRequestError"
        /\ (result = "Panic" /\ Visited < Len(amms)) => IsV3(amms[Visited + 1])

\* a non-zero record met an entry of another variant, and the record after
\* it was applied to the entry after it
HeterogeneousToleranceWitness ==
    /\ fn = "many" /\ pc = "done" /\ result = "Ok" /\ Whole
    /\ NumRecords >= 2 /\ Len(amms) >= 2
    /\ ~ZeroAt(1) /\ ~IsV3(amms[1]) /\ amms[1] = amms_before[1]
    /\ Applies(2) /\ amms[2] # amms_before[2]

====
